---- MODULE Spec2Model ----
(***************************************************************************)
(* A model of src/geocoding_script.py: the batch geocoding run of          *)
(* process_station_data over a CSV dataset, its incremental saves to the   *)
(* ".temp" file, its final write of the destination and the removal of     *)
(* the temp file, with the provider's answer to each call and a crash at   *)
(* any point of a run left to the environment; and main around it, with    *)
(* check_file_status before and after the run.                             *)
(***************************************************************************)
EXTENDS Integers, Sequences, FiniteSets, TLC

\* ------------------------------------------------------------------ bounds
MaxRows == 2          \* the dataset has 0..MaxRows records
MaxBatch == 2         \* batch_size ranges over 1..MaxBatch

\* ------------------------------------------------------------ cell values
\* A missing value of the data frame (None or NaN, both true of pd.isna).
Null == "<missing>"

isna(v) == v = Null
notna(v) == v # Null

\* The field strings pandas writes for a value: a missing value is written
\* as the empty field, every other value as its text.
ToCsvCell(v) == IF v = Null THEN "" ELSE v

\* The strings read_csv takes for a missing value (its default na_values).
NaStrings == {"", "NA", "N/A", "NaN", "nan", "NULL", "null", "None", "<NA>", "n/a", "#N/A"}

\* The value read_csv gives a field.
ReadCsvCell(c) == IF c \in NaStrings THEN Null ELSE c

GeoColumns ==
    {"formatted_address", "latitude", "longitude", "place_id",
     "geocoding_status", "geocoding_types"}

BaseColumns == {"location", "subdistrict"}

Columns == BaseColumns \cup {"search_address"} \cup GeoColumns

\* ------------------------------------------------------------------ files
Paths == {"in", "out", "in.temp", "out.temp"}

\* A path at which no file exists.
NoFile == [exists |-> FALSE, cols |-> {}, len |-> 0, rows |-> [i \in 0..(-1) |-> 0]]

\* A slip: the rows are written last to first.
to_csvReversed(d) ==
    [exists |-> TRUE, cols |-> d.cols, len |-> d.len,
     rows |-> [i \in 0..(d.len - 1) |->
                [c \in Columns |-> ToCsvCell(d.rows[d.len - 1 - i][c])]]]

\* df.to_csv(path, index=False): the header and every row of the frame.
to_csv(d) ==
    [exists |-> TRUE, cols |-> d.cols, len |-> d.len,
     rows |-> [i \in 0..(d.len - 1) |-> [c \in Columns |-> ToCsvCell(d.rows[i][c])]]]

\* The row pd.read_csv(path) gives for a row of the file: a column the file
\* lacks has no value.
read_row(f, r) ==
    [c \in Columns |-> IF c \in f.cols THEN ReadCsvCell(f.rows[r][c]) ELSE Null]

\* pd.read_csv(path)
read_csv(f) ==
    [cols |-> f.cols, len |-> f.len,
     rows |-> [r \in 0..(f.len - 1) |-> read_row(f, r)]]

\* The frame before any file is read.
NoFrame == [cols |-> {}, len |-> 0, rows |-> [i \in 0..(-1) |-> 0]]

\* A file of no bytes: pd.read_csv raises EmptyDataError on it.
EmptyFile == [exists |-> TRUE, cols |-> {}, len |-> 0, rows |-> [i \in 0..(-1) |-> 0]]

\* pd.read_csv(path) returns a frame: the file exists and has a header.
Readable(f) == f.exists /\ f.cols # {}

\* ------------------------------------------------------- check_file_status
\* The None check_file_status returns from its except branch.
NoStatus ==
    [none |-> TRUE, total_rows |-> 0, completed_rows |-> 0, error_rows |-> 0,
     pending_rows |-> 0, has_geocoding |-> FALSE,
     completion_rate |-> [num |-> 0, den |-> 1]]

\* check_file_status(file_path): the counts of the file's rows, or None when
\* anything in its body raises: read_csv on a missing or empty file, or
\* df['geocoding_status'] on a frame that has no such column.
check_file_status(f) ==
    IF ~Readable(f) THEN NoStatus
    ELSE
    LET d == read_csv(f)
        total == d.len
        has == "latitude" \in d.cols /\ "longitude" \in d.cols
    IN  IF has /\ "geocoding_status" \notin d.cols THEN NoStatus
        ELSE
        LET completed ==
                IF has
                THEN Cardinality({r \in 0..(total - 1) :
                        notna(d.rows[r]["latitude"]) /\ notna(d.rows[r]["longitude"])})
                ELSE 0
            errors ==
                IF has
                THEN Cardinality({r \in 0..(total - 1) :
                        d.rows[r]["geocoding_status"] = "ERROR"})
                ELSE 0
            pending == IF has THEN total - completed - errors ELSE total
        IN  [none |-> FALSE, total_rows |-> total, completed_rows |-> completed,
             error_rows |-> errors, pending_rows |-> pending, has_geocoding |-> has,
             completion_rate |->
                IF total > 0 THEN [num |-> completed * 100, den |-> total]
                ELSE [num |-> 0, den |-> 1]]

\* ------------------------------------------------------------ the provider
\* What one GET of the geocoding endpoint can give: no usable HTTP answer
\* (transport), or a JSON body with a status and a ranked list of results.
Result1 ==
    [formatted_address |-> "F1", lat |-> "13.5", lng |-> "100.5",
     place_id |-> "P1", types |-> <<"a", "b">>]

Result2 ==
    [formatted_address |-> "", lat |-> "14.5", lng |-> "101.5",
     place_id |-> "P2", types |-> <<>>]

TransportFailure == [transport |-> TRUE, status |-> "", results |-> <<>>]

Responses ==
    {TransportFailure,
     [transport |-> FALSE, status |-> "OK", results |-> <<Result1>>],
     [transport |-> FALSE, status |-> "OK", results |-> <<Result2, Result1>>],
     [transport |-> FALSE, status |-> "OK", results |-> <<>>],
     [transport |-> FALSE, status |-> "ZERO_RESULTS", results |-> <<>>]}

\* No call was made for the row.
NoAnswer == [transport |-> FALSE, status |-> "<none>", results |-> <<>>]

\* ', '.join(types)
RECURSIVE Join(_)
Join(s) ==
    IF Len(s) = 0 THEN ""
    ELSE IF Len(s) = 1 THEN s[1]
    ELSE s[1] \o ", " \o Join(Tail(s))

\* GoogleMapsGeocoder.geocode_address: None on a request fault, the first
\* result when the status is OK and the list is not empty, else a dict of
\* None values carrying the body's status. A types of None is the empty list
\* here: the one reader of it tests its truth only.
geocode_address(resp) ==
    IF resp.transport
    THEN [none |-> TRUE, formatted_address |-> Null, latitude |-> Null,
          longitude |-> Null, place_id |-> Null, types |-> <<>>, status |-> Null]
    ELSE IF resp.status = "OK" /\ Len(resp.results) > 0
    THEN [none |-> FALSE,
          formatted_address |-> resp.results[1].formatted_address,
          latitude |-> resp.results[1].lat,
          longitude |-> resp.results[1].lng,
          place_id |-> resp.results[1].place_id,
          types |-> resp.results[1].types,
          status |-> resp.status]
    ELSE [none |-> FALSE, formatted_address |-> Null, latitude |-> Null,
          longitude |-> Null, place_id |-> Null, types |-> <<>>,
          status |-> resp.status]

\* --------------------------------------------------------------- row policy
\* A slip: a row marked "ERROR" that has coordinates is passed over.
NeedsProcessingNoError(rec) ==
    ~(notna(rec["latitude"]) /\ notna(rec["longitude"]))

\* A slip: no row is passed over.
NeedsProcessingAlways(rec) == TRUE

\* The test of lines 144-146 negated: the row is to be geocoded.
NeedsProcessing(rec) ==
    ~(notna(rec["latitude"]) /\ notna(rec["longitude"])
      /\ rec["geocoding_status"] # "ERROR")

\* A slip: the longitude of the result is not stored.
ApplyResultNoLng(rec, result) ==
    IF ~result.none
    THEN [rec EXCEPT !["formatted_address"] = result.formatted_address,
                     !["latitude"] = result.latitude,
                     !["place_id"] = result.place_id,
                     !["geocoding_status"] = result.status,
                     !["geocoding_types"] =
                         IF Len(result.types) > 0 THEN Join(result.types) ELSE Null]
    ELSE [rec EXCEPT !["geocoding_status"] = "ERROR"]

\* A slip: a failed call clears the row as a call without a match does.
ApplyResultWipe(rec, result) ==
    [rec EXCEPT !["formatted_address"] = result.formatted_address,
                !["latitude"] = result.latitude,
                !["longitude"] = result.longitude,
                !["place_id"] = result.place_id,
                !["geocoding_status"] = IF result.none THEN "ERROR" ELSE result.status,
                !["geocoding_types"] =
                    IF Len(result.types) > 0 THEN Join(result.types) ELSE Null]

\* Lines 155-165: the fields of the row after the call's result.
ApplyResult(rec, result) ==
    IF ~result.none
    THEN [rec EXCEPT !["formatted_address"] = result.formatted_address,
                     !["latitude"] = result.latitude,
                     !["longitude"] = result.longitude,
                     !["place_id"] = result.place_id,
                     !["geocoding_status"] = result.status,
                     !["geocoding_types"] =
                         IF Len(result.types) > 0 THEN Join(result.types) ELSE Null]
    ELSE [rec EXCEPT !["geocoding_status"] = "ERROR"]

\* location + " " + subdistrict: missing when either operand is missing.
Concat(a, b) == IF isna(a) \/ isna(b) THEN Null ELSE a \o " " \o b

\* A slip: search_address is derived for every row, whatever it holds.
AddSearchAddressAlways(cols, rec) ==
    [rec EXCEPT !["search_address"] = Concat(rec["location"], rec["subdistrict"])]

\* Lines 121-126 for one row: search_address is derived when the column or
\* the row's value is missing.
AddSearchAddress(cols, rec) ==
    [rec EXCEPT !["search_address"] =
        IF "search_address" \notin cols \/ isna(rec["search_address"])
        THEN Concat(rec["location"], rec["subdistrict"])
        ELSE rec["search_address"]]

\* Lines 121-131: search_address for the rows that lack it, and the columns
\* the file lacks.
AddColumns(d) ==
    [cols |-> Columns, len |-> d.len,
     rows |-> [r \in 0..(d.len - 1) |-> AddSearchAddress(d.cols, d.rows[r])]]

\* A slip: an end_row at or before start_row is let through.
RangeInvalidNoOrder(start, end, length) ==
    \/ start < 0 \/ start >= length
    \/ end > length

\* Lines 109-112: the range test.
RangeInvalid(start, end, length) ==
    \/ start < 0 \/ start >= length
    \/ end <= start \/ end > length

Min(a, b) == IF a < b THEN a ELSE b

\* ------------------------------------------------------------------ state
VARIABLES
    files,            \* the file at each path
    args,             \* the arguments of process_station_data
    pc,               \* the position of the run
    run,              \* 1 for the first call, 2 for the call repeated after it
    prev,             \* how the first call ended, once a second was started
    pre,              \* the files when the current run was started
    df,               \* the data frame of the run
    end_row,          \* end_row after line 106
    i,                \* the first row of the current batch (line 137)
    idx,              \* the row the inner loop is at (line 142)
    processed_count,  \* line 136
    saves,            \* incremental saves made by the run
    committed,        \* the run has written its destination
    calls,            \* the rows the run called the provider for, in order
    answers,          \* the provider's answer for each row it was asked about
    error,            \* the exception the run ended with
    log,              \* the rows the loop was at, the saves and the final write, in order
    sleeps,           \* the calls of time.sleep(delay) the run made (line 171)
    status            \* what check_file_status last returned to main

vars ==
    <<files, args, pc, run, prev, pre, df, end_row, i, idx, processed_count,
      saves, committed, calls, answers, error, log, sleeps, status>>

\* input_file and output_file, the path of the final write (lines 185, 196)
\* and the path of the incremental saves (lines 175, 179, 191, 202).
InputPath == "in"
OutputPath == "out"
DestPath == IF args.insert_mode THEN InputPath ELSE OutputPath

\* A slip: the incremental save goes to the final path.
TempPathIsDest == DestPath

TempPath == (IF args.insert_mode THEN InputPath ELSE OutputPath) \o ".temp"

\* ----------------------------------------------------------- input files
LocNames == <<"Wat A", "School B", "Hall C", "Tent D">>
SubNames == <<"Bang Na", "Phra Khanong", "Bang Chak", "Suan Luang">>

\* The derived fields of an input row: never attempted; complete from an
\* earlier run, with a hand-edited search address; failed with coordinates
\* left from before; filled in part.
Fresh ==
    [search_address |-> "", formatted_address |-> "", latitude |-> "",
     longitude |-> "", place_id |-> "", geocoding_status |-> "",
     geocoding_types |-> ""]

Complete ==
    [search_address |-> "edited", formatted_address |-> "F0", latitude |-> "1.5",
     longitude |-> "2.5", place_id |-> "P0", geocoding_status |-> "OK",
     geocoding_types |-> "x"]

Stale ==
    [search_address |-> "", formatted_address |-> "F0", latitude |-> "1.5",
     longitude |-> "2.5", place_id |-> "P0", geocoding_status |-> "ERROR",
     geocoding_types |-> "x"]

Partial ==
    [search_address |-> "edited", formatted_address |-> "", latitude |-> "1.5",
     longitude |-> "", place_id |-> "", geocoding_status |-> "",
     geocoding_types |-> ""]

Shapes == {Fresh, Complete, Stale, Partial}

FileOf(cols, length, shape) ==
    [exists |-> TRUE, cols |-> cols, len |-> length,
     rows |-> [r \in 0..(length - 1) |->
        [c \in Columns |->
            IF c = "location" THEN LocNames[r + 1]
            ELSE IF c = "subdistrict" THEN SubNames[r + 1]
            ELSE shape[r][c]]]]

InputFiles ==
    UNION {
        {FileOf(BaseColumns, n, [r \in 0..(n - 1) |-> Fresh])}
        \cup {FileOf(Columns, n, sh) : sh \in [0..(n - 1) -> Shapes]}
        : n \in 0..MaxRows}

\* A file left at the output path by something earlier.
OldOutput == FileOf(BaseColumns, 1, [r \in 0..0 |-> Fresh])

Arguments ==
    [start_row : (-1)..MaxRows,
     end_row : 0..(MaxRows + 1),
     end_omitted : BOOLEAN,
     batch_size : 1..MaxBatch,
     insert_mode : BOOLEAN]

Init ==
    /\ args \in Arguments
    /\ args.end_omitted => args.end_row = 0
    /\ \E fin \in InputFiles \cup {NoFile, EmptyFile} :
       \E fout \in {NoFile, OldOutput} :
          /\ args.insert_mode => fout = NoFile
          /\ files = [p \in Paths |->
                        IF p = "in" THEN fin ELSE IF p = "out" THEN fout ELSE NoFile]
    /\ pc = "start"
    /\ run = 1
    /\ prev = "none"
    /\ pre = files
    /\ df = NoFrame
    /\ end_row = 0
    /\ i = 0
    /\ idx = 0
    /\ processed_count = 0
    /\ saves = 0
    /\ committed = FALSE
    /\ calls = <<>>
    /\ answers = [r \in 0..(MaxRows - 1) |-> NoAnswer]
    /\ error = "none"
    /\ log = <<>>
    /\ sleeps = 0
    /\ status = NoStatus

\* ---------------------------------------------------------------- actions
\* A slip: the temp file is opened for writing before the input is read.
ReadErrorAfterTemp ==
    /\ pc = "start"
    /\ ~Readable(files[InputPath])
    /\ files' = [files EXCEPT ![TempPath] = EmptyFile]
    /\ pc' = "failed"
    /\ error' = IF files[InputPath].exists THEN "EmptyDataError" ELSE "FileNotFoundError"
    /\ UNCHANGED <<args, run, prev, pre, df, end_row, i, idx,
                   processed_count, saves, committed, calls, answers>>
    /\ UNCHANGED <<log, sleeps, status>>

\* Line 102 on an input file that is missing or cannot be parsed.
ReadError ==
    /\ pc = "start"
    /\ ~Readable(files[InputPath])
    /\ pc' = "failed"
    /\ error' = IF files[InputPath].exists THEN "EmptyDataError" ELSE "FileNotFoundError"
    /\ UNCHANGED <<files, args, run, prev, pre, df, end_row, i, idx,
                   processed_count, saves, committed, calls, answers>>
    /\ UNCHANGED <<log, sleeps, status>>

\* end_row after lines 105-106, for a file of the given length.
EndRow(length) == IF args.end_omitted THEN length ELSE args.end_row

\* Lines 102-112 on a range the test rejects.
RangeError ==
    /\ pc = "start"
    /\ Readable(files[InputPath])
    /\ RangeInvalid(args.start_row, EndRow(files[InputPath].len), files[InputPath].len)
    /\ df' = read_csv(files[InputPath])
    /\ end_row' = EndRow(files[InputPath].len)
    /\ pc' = "failed"
    /\ error' = "ValueError"
    /\ UNCHANGED <<files, args, run, prev, pre, i, idx, processed_count,
                   saves, committed, calls, answers>>
    /\ UNCHANGED <<log, sleeps, status>>

\* A slip: the loop starts at the first row of the dataset, not at start_row.
BeginFromZero ==
    /\ pc = "start"
    /\ Readable(files[InputPath])
    /\ ~RangeInvalid(args.start_row, EndRow(files[InputPath].len), files[InputPath].len)
    /\ df' = AddColumns(read_csv(files[InputPath]))
    /\ end_row' = EndRow(files[InputPath].len)
    /\ i' = 0
    /\ idx' = 0
    /\ processed_count' = 0
    /\ pc' = "row"
    /\ UNCHANGED <<files, args, run, prev, pre, saves, committed, calls,
                   answers, error>>
    /\ UNCHANGED <<log, sleeps, status>>

\* Lines 102-137 on a valid range: the frame is read and completed and the
\* loop is at the first row of the first batch.
Begin ==
    /\ pc = "start"
    /\ Readable(files[InputPath])
    /\ ~RangeInvalid(args.start_row, EndRow(files[InputPath].len), files[InputPath].len)
    /\ df' = AddColumns(read_csv(files[InputPath]))
    /\ end_row' = EndRow(files[InputPath].len)
    /\ i' = args.start_row
    /\ idx' = args.start_row
    /\ processed_count' = 0
    /\ pc' = "row"
    /\ UNCHANGED <<files, args, run, prev, pre, saves, committed, calls,
                   answers, error>>
    /\ UNCHANGED <<log, sleeps, status>>

\* A slip: the inner loop runs to the end of the range in every batch.
end_idxWholeRange == end_row

\* Line 138.
end_idx == Min(i + args.batch_size, end_row)

\* The inner loop goes to the next row of the batch, or the batch is over.
NextRow ==
    /\ idx' = idx + 1
    /\ pc' = IF idx + 1 < end_idx THEN "row" ELSE "save"

\* Lines 144-148: a row that has its coordinates is passed over.
Skip ==
    /\ pc = "row"
    /\ ~NeedsProcessing(df.rows[idx])
    /\ NextRow
    /\ UNCHANGED <<files, args, run, prev, pre, df, end_row, i,
                   processed_count, saves, committed, calls, answers, error>>
    /\ log' = Append(log, [op |-> "row", row |-> idx])
    /\ UNCHANGED <<sleeps, status>>

\* A slip: the counter is stepped in the branch of a result only, so a call
\* that ended in a request fault is not counted.
GeocodeCountResults ==
    /\ pc = "row"
    /\ NeedsProcessing(df.rows[idx])
    /\ \E resp \in Responses :
        /\ answers[idx] = NoAnswer \/ answers[idx] = resp
        /\ df' = [df EXCEPT !.rows[idx] = ApplyResult(@, geocode_address(resp))]
        /\ answers' = [answers EXCEPT ![idx] = resp]
        /\ processed_count' =
              IF geocode_address(resp).none THEN processed_count
              ELSE processed_count + 1
    /\ calls' = Append(calls, idx)
    /\ NextRow
    /\ UNCHANGED <<files, args, run, prev, pre, end_row, i, saves,
                   committed, error>>
    /\ log' = Append(log, [op |-> "row", row |-> idx])
    /\ sleeps' = sleeps + 1
    /\ UNCHANGED status

\* Lines 150-171: the provider is called for the row and its result applied.
\* The provider answers a row it was asked about before as it did then.
Geocode ==
    /\ pc = "row"
    /\ NeedsProcessing(df.rows[idx])
    /\ \E resp \in Responses :
        /\ answers[idx] = NoAnswer \/ answers[idx] = resp
        /\ df' = [df EXCEPT !.rows[idx] = ApplyResult(@, geocode_address(resp))]
        /\ answers' = [answers EXCEPT ![idx] = resp]
    /\ calls' = Append(calls, idx)
    /\ processed_count' = processed_count + 1
    /\ NextRow
    /\ UNCHANGED <<files, args, run, prev, pre, end_row, i, saves,
                   committed, error>>
    /\ log' = Append(log, [op |-> "row", row |-> idx])
    /\ sleeps' = sleeps + 1
    /\ UNCHANGED status

\* Lines 173-181: the frame is written to the temp path, and the outer loop
\* goes to the next batch or ends.
SaveTemp ==
    /\ pc = "save"
    /\ files' = [files EXCEPT ![TempPath] = to_csv(df)]
    /\ saves' = saves + 1
    /\ i' = i + args.batch_size
    /\ idx' = IF i + args.batch_size < end_row THEN i + args.batch_size ELSE idx
    /\ pc' = IF i + args.batch_size < end_row THEN "row" ELSE "commit"
    /\ UNCHANGED <<args, run, prev, pre, df, end_row, processed_count,
                   committed, calls, answers, error>>
    /\ log' = Append(log, [op |-> "save", row |-> -1])
    /\ UNCHANGED <<sleeps, status>>

\* Lines 186 and 197: the frame is written to the destination.
Commit ==
    /\ pc = "commit"
    /\ files' = [files EXCEPT ![DestPath] = to_csv(df)]
    /\ committed' = TRUE
    /\ pc' = "remove"
    /\ UNCHANGED <<args, run, prev, pre, df, end_row, i, idx, processed_count,
                   saves, calls, answers, error>>
    /\ log' = Append(log, [op |-> "commit", row |-> -1])
    /\ UNCHANGED <<sleeps, status>>

\* Lines 191-194 and 202-205: the temp file is removed when it exists.
RemoveTemp ==
    /\ pc = "remove"
    /\ files' = IF files[TempPath].exists
                THEN [files EXCEPT ![TempPath] = NoFile]
                ELSE files
    /\ pc' = "done"
    /\ UNCHANGED <<args, run, prev, pre, df, end_row, i, idx, processed_count,
                   saves, committed, calls, answers, error>>
    /\ UNCHANGED <<log, sleeps, status>>

\* The process dies between two steps of a run; the files stay as they are.
Crash ==
    /\ pc \in {"row", "save", "commit", "remove"}
    /\ pc' = "crashed"
    /\ UNCHANGED <<files, args, run, prev, pre, df, end_row, i, idx,
                   processed_count, saves, committed, calls, answers, error>>
    /\ UNCHANGED <<log, sleeps, status>>

\* process_station_data is called again with the same arguments.
Rerun ==
    /\ pc \in {"done", "crashed"}
    /\ run = 1
    /\ run' = 2
    /\ prev' = pc
    /\ pre' = files
    /\ pc' = "start"
    /\ df' = NoFrame
    /\ end_row' = 0
    /\ i' = 0
    /\ idx' = 0
    /\ processed_count' = 0
    /\ saves' = 0
    /\ committed' = FALSE
    /\ calls' = <<>>
    /\ UNCHANGED <<files, args, answers, error>>
    /\ log' = <<>>
    /\ sleeps' = 0
    /\ UNCHANGED status

\* Lines 208-210: the counts of the summary the run logs at its end, taken
\* over df.iloc[start_row:end_row].
success_count ==
    Cardinality({r \in args.start_row..(end_row - 1) :
                    df.rows[r]["geocoding_status"] = "OK"})

error_count ==
    Cardinality({r \in args.start_row..(end_row - 1) :
                    isna(df.rows[r]["geocoding_status"])})
    + Cardinality({r \in args.start_row..(end_row - 1) :
                    df.rows[r]["geocoding_status"] = "ERROR"})

Next ==
    \/ ReadError
    \/ RangeError
    \/ Begin
    \/ Skip
    \/ Geocode
    \/ SaveTemp
    \/ Commit
    \/ RemoveTemp
    \/ Crash

Spec == Init /\ [][Next]_vars

\* Two calls in succession over the whole dataset.
InitTwice ==
    /\ Init
    /\ files[InputPath].exists
    /\ files[InputPath].len > 0
    /\ args.start_row = 0
    /\ args.end_omitted

NextTwice ==
    \/ Begin
    \/ Skip
    \/ Geocode
    \/ SaveTemp
    \/ Commit
    \/ RemoveTemp
    \/ Crash
    \/ Rerun

SpecTwice == InitTwice /\ [][NextTwice]_vars

\* A dataset of twelve stations of which the first two have their
\* coordinates, run over whole in batches of five.
ScenarioNames ==
    <<"Station 00", "Station 01", "Station 02", "Station 03", "Station 04",
      "Station 05", "Station 06", "Station 07", "Station 08", "Station 09",
      "Station 10", "Station 11">>

ScenarioFile ==
    [exists |-> TRUE, cols |-> Columns, len |-> 12,
     rows |-> [r \in 0..11 |->
        [c \in Columns |->
            IF c = "location" THEN ScenarioNames[r + 1]
            ELSE IF c = "subdistrict" THEN "Bang Na"
            ELSE IF r < 2 THEN Complete[c] ELSE Fresh[c]]]]

\* The provider's answer is the same for the pending rows of one batch.
ScenarioAnswers ==
    {[r \in 0..11 |->
        IF r < 5 THEN a ELSE IF r < 10 THEN b ELSE c] : a, b, c \in Responses}

InitScenario ==
    /\ \E mode \in BOOLEAN :
         args = [start_row |-> 0, end_row |-> 12, end_omitted |-> FALSE,
                 batch_size |-> 5, insert_mode |-> mode]
    /\ files = [p \in Paths |-> IF p = "in" THEN ScenarioFile ELSE NoFile]
    /\ pc = "start"
    /\ run = 1
    /\ prev = "none"
    /\ pre = files
    /\ df = NoFrame
    /\ end_row = 0
    /\ i = 0
    /\ idx = 0
    /\ processed_count = 0
    /\ saves = 0
    /\ committed = FALSE
    /\ calls = <<>>
    /\ answers \in ScenarioAnswers
    /\ error = "none"
    /\ log = <<>>
    /\ sleeps = 0
    /\ status = NoStatus

\* One call of process_station_data that runs to its end, over the small
\* datasets or over the twelve stations.
NextScenario ==
    \/ ReadError
    \/ RangeError
    \/ Begin
    \/ Skip
    \/ Geocode
    \/ SaveTemp
    \/ Commit
    \/ RemoveTemp

SpecScenario == (Init \/ InitScenario) /\ [][NextScenario]_vars

\* ------------------------------------------------------------------- main
\* The values main passes to process_station_data as the script stands.
START_ROW == 6001
END_ROW == 9000
BATCH_SIZE == 10
INSERT_MODE == TRUE

MainArguments ==
    [start_row |-> START_ROW, end_row |-> END_ROW, end_omitted |-> FALSE,
     batch_size |-> BATCH_SIZE, insert_mode |-> INSERT_MODE]

\* Datasets that came with coordinates of their own: a latitude and a
\* longitude column and none of the other columns the script adds.
CoordinateFiles ==
    UNION {
        {FileOf(BaseColumns \cup {"latitude", "longitude"}, n, sh) :
            sh \in [0..(n - 1) -> {Fresh, Complete, Partial}]}
        : n \in 0..MaxRows}

\* A row an earlier run left after a request fault: "ERROR" and no coordinates.
Failed ==
    [search_address |-> "edited", formatted_address |-> "", latitude |-> "",
     longitude |-> "", place_id |-> "", geocoding_status |-> "ERROR",
     geocoding_types |-> ""]

\* Datasets an earlier run left with such rows.
FailedFiles ==
    UNION {
        {FileOf(Columns, n, sh) : sh \in [0..(n - 1) -> {Failed, Complete, Fresh}]}
        : n \in 1..MaxRows}

\* main is started: the arguments are the script's own or others its comment
\* of line 294 invites, the input any dataset, a missing or an empty file.
InitMain ==
    /\ args \in Arguments \cup {MainArguments}
    /\ args.end_omitted => args.end_row = 0
    /\ \E fin \in InputFiles \cup CoordinateFiles \cup FailedFiles
                   \cup {NoFile, EmptyFile} :
       \E fout \in {NoFile, OldOutput} :
          /\ args.insert_mode => fout = NoFile
          /\ files = [p \in Paths |->
                        IF p = "in" THEN fin ELSE IF p = "out" THEN fout ELSE NoFile]
    /\ pc = "main"
    /\ run = 1
    /\ prev = "none"
    /\ pre = files
    /\ df = NoFrame
    /\ end_row = 0
    /\ i = 0
    /\ idx = 0
    /\ processed_count = 0
    /\ saves = 0
    /\ committed = FALSE
    /\ calls = <<>>
    /\ answers = [r \in 0..(MaxRows - 1) |-> NoAnswer]
    /\ error = "none"
    /\ log = <<>>
    /\ sleeps = 0
    /\ status = NoStatus

\* Lines 280-290: the status of the input is taken, and main returns when it
\* has the coordinate columns and no row pending.
MainReturn ==
    /\ pc = "main"
    /\ ~check_file_status(files[InputPath]).none
    /\ check_file_status(files[InputPath]).has_geocoding
    /\ check_file_status(files[InputPath]).pending_rows = 0
    /\ status' = check_file_status(files[InputPath])
    /\ pc' = "returned"
    /\ UNCHANGED <<files, args, run, prev, pre, df, end_row, i, idx,
                   processed_count, saves, committed, calls, answers, error,
                   log, sleeps>>

\* Lines 280-308: the status is None or leaves rows pending, and main goes on
\* to call process_station_data.
MainProceed ==
    /\ pc = "main"
    /\ \/ check_file_status(files[InputPath]).none
       \/ ~check_file_status(files[InputPath]).has_geocoding
       \/ check_file_status(files[InputPath]).pending_rows # 0
    /\ status' = check_file_status(files[InputPath])
    /\ pc' = "start"
    /\ UNCHANGED <<files, args, run, prev, pre, df, end_row, i, idx,
                   processed_count, saves, committed, calls, answers, error,
                   log, sleeps>>

\* Lines 319-328: the run returned and main takes the status of the file the
\* run wrote.
MainFinalStatus ==
    /\ pc = "done"
    /\ status' = check_file_status(files[DestPath])
    /\ pc' = "exit"
    /\ UNCHANGED <<files, args, run, prev, pre, df, end_row, i, idx,
                   processed_count, saves, committed, calls, answers, error,
                   log, sleeps>>

\* main from its start to its return; an exception of the run is caught by
\* lines 330-333 and main returns.
NextMain ==
    \/ MainReturn
    \/ MainProceed
    \/ ReadError
    \/ RangeError
    \/ Begin
    \/ Skip
    \/ Geocode
    \/ SaveTemp
    \/ Commit
    \/ RemoveTemp
    \/ MainFinalStatus

SpecMain == InitMain /\ [][NextMain]_vars

\* ------------------------------------------------------------ properties
\* The number of rows of the dataset the current run loaded, a row of it as
\* loaded, and the row once lines 121-131 completed it.
LoadedLen == pre[InputPath].len
LoadedRow(r) == read_row(pre[InputPath], r)
PreparedRow(r) == AddSearchAddress(pre[InputPath].cols, LoadedRow(r))

\* The rows the current run called the provider for.
Called == {calls[k] : k \in 1..Len(calls)}

\* The run passed its range test and has not ended in an exception.
InRun == pc \in {"row", "save", "commit", "remove", "done", "crashed"}

\* The rows of the range the inner loop has been at.
Visited == {r \in 0..(LoadedLen - 1) : args.start_row <= r /\ r < idx}

\* A complete record of the data model: both coordinates and no "ERROR".
RecordComplete(rec) ==
    /\ rec["latitude"] # Null
    /\ rec["longitude"] # Null
    /\ rec["geocoding_status"] # "ERROR"

\* The end of the range the arguments ask for, for a dataset of n rows.
AskedEnd(n) == IF args.end_omitted THEN n ELSE args.end_row

\* C1: a call whose range is invalid for the dataset's length (start_row < 0,
\* start_row >= L, end_row <= start_row or end_row > L, an omitted end_row
\* being L) ends in the range error, has called the provider for no row, and
\* has left every file as it was when the call was made.
C1_InvalidRangeRejected ==
    (/\ pc # "start"
     /\ pre[InputPath].exists
     /\ pre[InputPath].cols # {}
     /\ \/ args.start_row < 0
        \/ args.start_row >= LoadedLen
        \/ AskedEnd(LoadedLen) <= args.start_row
        \/ AskedEnd(LoadedLen) > LoadedLen)
    => (/\ pc = "failed"
        /\ error = "ValueError"
        /\ calls = <<>>
        /\ processed_count = 0
        /\ files = pre)

\* C1 witness: a call with a valid start_row and an end_row past the dataset's
\* last row, over a dataset with rows to geocode, has ended in the range error.
C1_Witness ==
    /\ pc = "failed"
    /\ error = "ValueError"
    /\ LoadedLen = 2
    /\ args.start_row = 0
    /\ ~args.end_omitted
    /\ args.end_row = 3

\* The frame at the last incremental save: the run's updates to the rows of
\* the batches before the current one, and the other rows as they were loaded
\* and completed.
ThroughLastSavedBatch ==
    [cols |-> Columns, len |-> LoadedLen,
     rows |-> [r \in 0..(LoadedLen - 1) |->
                IF r < i THEN df.rows[r] ELSE PreparedRow(r)]]

\* C2: at every point of a run before its final write, also once it has
\* crashed there, the destination file is as it was before the run, and after
\* an incremental save the file at the destination path + ".temp" holds the
\* dataset with every update through the latest saved batch, in both modes.
C2_CheckpointBeforeCommit ==
    (InRun /\ ~committed)
    => (/\ files[DestPath] = pre[DestPath]
        /\ saves > 0 => files[DestPath \o ".temp"] = to_csv(ThroughLastSavedBatch))

\* C2 witness: a run in copy mode over an output file that was there before
\* crashed after its first save, with a later row updated in memory only.
C2_Witness ==
    /\ pc = "crashed"
    /\ ~committed
    /\ saves = 1
    /\ ~args.insert_mode
    /\ pre[OutputPath].exists
    /\ Len(calls) = 2
    /\ files[TempPath] # to_csv(df)

\* C3: at every point of a run after its first incremental save, also once it
\* has crashed there, either the destination holds the fully updated dataset
\* and the temp file does not exist, or the destination is as before the run
\* and the temp file holds the latest incremental snapshot.
C3_CommitAtomic ==
    (InRun /\ saves > 0)
    => \/ /\ files[DestPath] = to_csv(df)
          /\ ~files[DestPath \o ".temp"].exists
       \/ /\ files[DestPath] = pre[DestPath]
          /\ files[DestPath \o ".temp"] = to_csv(ThroughLastSavedBatch)

\* C4: when the first run crashed after an incremental save and the call is
\* repeated, the second run calls the provider for no row whose result the
\* checkpoint (the temp file the first run left) holds, and the temp file is
\* never a snapshot that lacks a result the checkpoint held.
C4_ResumeWithoutLossOrDuplicate ==
    (run = 2 /\ prev = "crashed" /\ pre[DestPath \o ".temp"].exists /\ InRun)
    => LET checkpoint == pre[DestPath \o ".temp"]
           temp == files[DestPath \o ".temp"]
       IN  /\ \A r \in Called : ~RecordComplete(read_row(checkpoint, r))
           /\ temp.exists
              => \A r \in 0..(checkpoint.len - 1) :
                    RecordComplete(read_row(checkpoint, r))
                    => RecordComplete(read_row(temp, r))

\* C5 as claimed: after a second complete run with the same arguments and the
\* same answers, the destination holds the dataset it held after the first,
\* and the second run called the provider for no row that was complete after
\* the first, in both modes.
C5_IdempotentBothModes ==
    (run = 2 /\ prev = "done" /\ InRun)
    => (/\ pc = "done" => files[DestPath] = pre[DestPath]
        /\ \A r \in Called : ~RecordComplete(read_row(pre[DestPath], r)))

\* C5 as amended: after a second complete run with the same arguments and the
\* same answers, the destination holds the dataset it held after the first,
\* in both modes; the second run calls the provider for no row that is
\* complete in the file it loads, which in in-place mode is the dataset the
\* first run left, and in copy mode the input as it was before the first run.
C5_Idempotent ==
    (run = 2 /\ prev = "done" /\ InRun)
    => (/\ pc = "done" => files[DestPath] = pre[DestPath]
        /\ args.insert_mode
           => \A r \in Called : ~RecordComplete(read_row(pre[DestPath], r))
        /\ ~args.insert_mode
           => \A r \in Called : ~RecordComplete(read_row(pre[InputPath], r)))

\* C5 witness: a second complete in-place run has passed over a row the first
\* run located and has called the provider again for a row the first run
\* could not complete.
C5_Witness ==
    /\ run = 2
    /\ prev = "done"
    /\ pc = "done"
    /\ args.insert_mode
    /\ Len(calls) = 1
    /\ \E r \in 0..(LoadedLen - 1) :
        /\ r \notin Called
        /\ LoadedRow(r)["geocoding_status"] = "OK"
        /\ LoadedRow(r)["latitude"] = "13.5"

\* The record has both coordinates or neither.
Paired(rec) == (rec["latitude"] = Null) <=> (rec["longitude"] = Null)

\* C6 as claimed: after any run every record of the dataset has latitude
\* null if and only if longitude is null.
C6_CoordinatesPaired ==
    pc = "done"
    => \A r \in 0..(LoadedLen - 1) : Paired(read_row(files[DestPath], r))

\* C6 as amended: during and after any run, every record that had latitude
\* null if and only if longitude null in the loaded input, or that the run
\* got an answer of the provider for (a match or none), has latitude null if
\* and only if longitude is null, in the frame and in the written dataset.
C6_CoordinatesPairedPreserved ==
    InRun
    => \A r \in 0..(LoadedLen - 1) :
        (Paired(LoadedRow(r)) \/ (r \in Called /\ ~answers[r].transport))
        => (/\ Paired(df.rows[r])
            /\ pc = "done" => Paired(read_row(files[DestPath], r)))

\* C6 witness: a completed run found a match for a row that had a latitude
\* and no longitude.
C6_Witness ==
    /\ pc = "done"
    /\ \E r \in Called :
        /\ ~Paired(LoadedRow(r))
        /\ ~answers[r].transport
        /\ read_row(files[DestPath], r)["longitude"] = "100.5"

\* C7: a row of the range the loop has been at was passed over (no provider
\* call, no field written) if and only if it had both coordinates and a
\* status other than "ERROR"; every other row was attempted.
C7_RowPolicy ==
    InRun
    => \A r \in Visited :
        /\ (r \notin Called) <=> RecordComplete(LoadedRow(r))
        /\ r \notin Called => df.rows[r] = PreparedRow(r)

\* C7 witness: one run passed over a complete row and attempted a row marked
\* "ERROR" that had coordinates left from before.
C7_Witness ==
    /\ pc = "done"
    /\ \E r \in Visited : r \notin Called
    /\ \E r \in Called :
        /\ LoadedRow(r)["geocoding_status"] = "ERROR"
        /\ LoadedRow(r)["latitude"] # Null

\* C8: a provider call that cannot be completed sets the row's status to
\* "ERROR", leaves every other field of the row as it was, raises nothing and
\* lets the loop go on to the next row.
C8_TransportFailureRecorded ==
    [][(pc = "row" /\ Len(calls') = Len(calls) + 1 /\ answers'[idx].transport)
       => (/\ df'.rows[idx]["geocoding_status"] = "ERROR"
           /\ \A c \in Columns \ {"geocoding_status"} :
                df'.rows[idx][c] = df.rows[idx][c]
           /\ error' = "none"
           /\ idx' = idx + 1
           /\ pc' \in {"row", "save"}
           /\ pc' = "save" <=> (idx' = end_row \/ idx' = i + args.batch_size))]_vars

\* C8 witness: a call failed for a row that had coordinates from before, and
\* the run went on to call the provider for the next row.
C8_Witness ==
    /\ Len(calls) = 2
    /\ answers[calls[1]].transport
    /\ LoadedRow(calls[1])["latitude"] = "1.5"
    /\ df.rows[calls[1]]["latitude"] = "1.5"
    /\ df.rows[calls[1]]["geocoding_status"] = "ERROR"
    /\ calls[2] = calls[1] + 1

\* The provider answered without a usable match.
NoMatch(resp) ==
    /\ resp # NoAnswer
    /\ ~resp.transport
    /\ ~(resp.status = "OK" /\ Len(resp.results) > 0)

\* C9: a row the provider answered for without a usable match has the
\* provider's status, that status is not "OK", and its formatted_address,
\* latitude, longitude and place_id are null.
C9_NotFoundRecorded ==
    InRun
    => \A r \in Called :
        NoMatch(answers[r])
        => (/\ df.rows[r]["geocoding_status"] = answers[r].status
            /\ df.rows[r]["geocoding_status"] # "OK"
            /\ df.rows[r]["formatted_address"] = Null
            /\ df.rows[r]["latitude"] = Null
            /\ df.rows[r]["longitude"] = Null
            /\ df.rows[r]["place_id"] = Null)

\* The files the current run has written.
WrittenPaths ==
    (IF saves > 0 /\ files[TempPath].exists THEN {TempPath} ELSE {})
    \cup (IF committed THEN {DestPath} ELSE {})

\* The rows outside the range of the run.
OutsideRange ==
    {r \in 0..(LoadedLen - 1) : r < args.start_row \/ r >= AskedEnd(LoadedLen)}

\* C10 as claimed: in every file a run has written, every field of a record
\* outside the range, search_address too, is as in the loaded input.
C10_OutsideRangeUntouched ==
    InRun
    => \A p \in WrittenPaths : \A r \in OutsideRange :
        read_row(files[p], r) = LoadedRow(r)

\* C10 as amended: in every file a run has written, every field other than
\* search_address of a record outside the range is as in the loaded input;
\* its search_address is as loaded when it was not null, and is otherwise
\* location + " " + subdistrict.
C10_OutsideRangeKept ==
    InRun
    => \A p \in WrittenPaths : \A r \in OutsideRange :
        LET written == read_row(files[p], r)
            loaded == LoadedRow(r)
        IN  /\ \A c \in Columns \ {"search_address"} : written[c] = loaded[c]
            /\ written["search_address"] =
                IF loaded["search_address"] # Null
                THEN loaded["search_address"]
                ELSE loaded["location"] \o " " \o loaded["subdistrict"]

\* C10 witness: a completed run over the second row only kept the first
\* row's failed status and old coordinates and gave it a search address.
C10_Witness ==
    /\ pc = "done"
    /\ args.start_row = 1
    /\ Len(calls) = 1
    /\ LoadedRow(0)["geocoding_status"] = "ERROR"
    /\ read_row(files[DestPath], 0)["geocoding_status"] = "ERROR"
    /\ read_row(files[DestPath], 0)["latitude"] = "1.5"
    /\ read_row(files[DestPath], 0)["search_address"] = "Wat A Bang Na"

\* ------------------------------------------------- order of rows and saves
RowEvent(r) == [op |-> "row", row |-> r]
SaveEvent == [op |-> "save", row |-> -1]
CommitEvent == [op |-> "commit", row |-> -1]

\* What a whole run over [S, E) in batches of B does from row r on: each row
\* in turn, a save after every B-th row of the range and after its last row,
\* and the final write at the end.
RECURSIVE ExpectedFrom(_, _, _, _)
ExpectedFrom(r, S, E, B) ==
    IF r >= E THEN <<CommitEvent>>
    ELSE <<RowEvent(r)>>
         \o (IF (r + 1 - S) % B = 0 \/ r + 1 = E THEN <<SaveEvent>> ELSE <<>>)
         \o ExpectedFrom(r + 1, S, E, B)

ExpectedLog ==
    ExpectedFrom(args.start_row, args.start_row, AskedEnd(LoadedLen), args.batch_size)

IsPrefix(a, b) == Len(a) <= Len(b) /\ a = SubSeq(b, 1, Len(a))

CountOf(ev) == Cardinality({k \in 1..Len(log) : log[k] = ev})

\* ceil(n / b)
CeilDiv(n, b) == (n + b - 1) \div b

\* C11: in a run over a valid range, the rows of [start_row, end_row) are gone
\* through once each in ascending order in batches of batch_size rows (the
\* last may be shorter), one save of the frame follows the last row of each
\* batch and precedes the first row of the next, which makes
\* ceil((end_row - start_row) / batch_size) saves, and the final write happens
\* once, after the last save.
C11_BatchAndCheckpointOrder ==
    InRun =>
        /\ IsPrefix(log, ExpectedLog)
        /\ pc = "row" => Len(log) < Len(ExpectedLog) - 2
        /\ pc = "save" => IsPrefix(Append(log, SaveEvent), ExpectedLog)
        /\ pc = "commit" => Append(log, CommitEvent) = ExpectedLog
        /\ pc \in {"remove", "done"} => log = ExpectedLog
        /\ pc \in {"commit", "remove", "done"} =>
              /\ CountOf(SaveEvent) =
                    CeilDiv(AskedEnd(LoadedLen) - args.start_row, args.batch_size)
              /\ saves = CountOf(SaveEvent)
              /\ \A r \in args.start_row..(AskedEnd(LoadedLen) - 1) :
                    CountOf(RowEvent(r)) = 1

\* C11 witness: the run over the twelve stations in batches of five is done:
\* a save after the fifth, the tenth and the twelfth row, and the final write
\* last.
C11_Witness ==
    /\ pc = "done"
    /\ pre[InputPath] = ScenarioFile
    /\ Len(log) = 16
    /\ log[5] = RowEvent(4) /\ log[6] = SaveEvent /\ log[7] = RowEvent(5)
    /\ log[12] = SaveEvent
    /\ log[14] = RowEvent(11) /\ log[15] = SaveEvent
    /\ log[16] = CommitEvent
    /\ CountOf(SaveEvent) = 3

\* ------------------------------------------------- calls, counter and pauses
\* The rows the inner loop has been at, and how often the provider was called
\* for a row.
Seen == {log[k].row : k \in {n \in 1..Len(log) : log[n].op = "row"}}
CallsFor(r) == Cardinality({k \in 1..Len(calls) : calls[k] = r})

\* C12: in one run every row of the range that needs processing causes one
\* provider call, one step of the processed counter and one pause, whatever
\* the call's outcome, and a row passed over causes none; so the run over the
\* twelve stations in batches of five, the first two complete, calls the
\* provider ten times (rows 2..11), makes three batches and counts ten.
C12_CallsCounterPacingAgree ==
    InRun =>
        /\ processed_count = Len(calls)
        /\ sleeps = Len(calls)
        /\ \A r \in 0..(LoadedLen - 1) :
              CallsFor(r) =
                IF r \in Seen /\ ~RecordComplete(PreparedRow(r)) THEN 1 ELSE 0
        /\ (pc = "done" /\ pre[InputPath] = ScenarioFile) =>
              /\ calls = <<2, 3, 4, 5, 6, 7, 8, 9, 10, 11>>
              /\ processed_count = 10
              /\ sleeps = 10
              /\ CountOf(SaveEvent) = 3

\* C12 witness: the run over the twelve stations is done with ten calls, of
\* which one ended in a request fault and one found the address.
C12_Witness ==
    /\ pc = "done"
    /\ pre[InputPath] = ScenarioFile
    /\ processed_count = 10
    /\ Len(calls) = 10
    /\ \E r \in Called : answers[r].transport
    /\ \E r \in Called : df.rows[r]["geocoding_status"] = "OK"

\* ------------------------------------------------------------ the summary
\* C13: in the summary of a finished run the rows counted as succeeded and
\* the rows counted as errored are each at most the rows processed in the
\* run, and together they are exactly the rows processed.
C13_SummaryBounds ==
    pc = "done" =>
        /\ success_count <= processed_count
        /\ error_count <= processed_count
        /\ success_count + error_count = processed_count

\* ---------------------------------------------------------------- main
\* C14: whenever main returns without starting a run, because the status has
\* has_geocoding and no pending row, every record of the file is complete:
\* both coordinates and a status other than "ERROR".
C14_ShortCircuitOnlyWhenComplete ==
    pc = "returned" =>
        \A r \in 0..(LoadedLen - 1) : RecordComplete(LoadedRow(r))

\* The file the status main holds was taken of: the input before the run, the
\* file the run wrote after it.
Inspected == IF pc = "exit" THEN files[DestPath] ELSE pre[InputPath]

HasCoordinateColumns(f) == "latitude" \in f.cols /\ "longitude" \in f.cols

WithBothCoordinates(f) ==
    {r \in 0..(f.len - 1) :
        read_row(f, r)["latitude"] # Null /\ read_row(f, r)["longitude"] # Null}

WithErrorStatus(f) ==
    {r \in 0..(f.len - 1) : read_row(f, r)["geocoding_status"] = "ERROR"}

\* C15: for every dataset that can be read, check_file_status reports, when
\* the latitude or the longitude column is absent, has_geocoding false, 0
\* completed, 0 errored, pending = total and rate 0, and otherwise, never a
\* read error, completed = the rows with both coordinates, errored = the rows
\* with status "ERROR" and pending = total - completed - errored; the rate is
\* 0 when there are no rows.
C15_StatusOfReadableDataset ==
    (pc # "main" /\ Inspected.exists /\ Inspected.cols # {}) =>
        /\ ~status.none
        /\ status.total_rows = Inspected.len
        /\ status.has_geocoding = HasCoordinateColumns(Inspected)
        /\ ~HasCoordinateColumns(Inspected) =>
              /\ status.completed_rows = 0
              /\ status.error_rows = 0
              /\ status.pending_rows = status.total_rows
              /\ status.completion_rate.num = 0
        /\ HasCoordinateColumns(Inspected) =>
              /\ status.completed_rows = Cardinality(WithBothCoordinates(Inspected))
              /\ status.error_rows = Cardinality(WithErrorStatus(Inspected))
              /\ status.pending_rows =
                    status.total_rows - status.completed_rows - status.error_rows
        /\ status.total_rows = 0 => status.completion_rate.num = 0

\* -------------------------------------------------------------- row order
\* C16: after every incremental save and after the final write, the file
\* written has as many records as the input that was loaded, and its record
\* at every index, in the range or not, has the location and the subdistrict
\* of the input's record at that index.
C16_RowOrderPreserved ==
    InRun =>
        \A p \in WrittenPaths :
            /\ files[p].len = LoadedLen
            /\ \A r \in 0..(LoadedLen - 1) :
                  /\ read_row(files[p], r)["location"] = LoadedRow(r)["location"]
                  /\ read_row(files[p], r)["subdistrict"] = LoadedRow(r)["subdistrict"]

\* C16 witness: a run over the second of two records only has saved and
\* written the destination, after a call for that record.
C16_Witness ==
    /\ pc = "remove"
    /\ LoadedLen = 2
    /\ args.start_row = 1
    /\ calls = <<1>>
    /\ WrittenPaths = {TempPath, DestPath}
    /\ read_row(files[DestPath], 0)["location"] # read_row(files[DestPath], 1)["location"]

\* ------------------------------------------------------ an unreadable input
\* C17: when the input file is missing or cannot be parsed, main gets no
\* status, the run it starts ends in the read's exception, which main reports
\* before it returns, no provider call is made, and the input, the output and
\* both temp files are as they were: none created, changed or removed.
C17_UnreadableInputAborts ==
    (pc # "main" /\ (~pre[InputPath].exists \/ pre[InputPath].cols = {})) =>
        /\ pc \in {"start", "failed"}
        /\ status.none
        /\ pc = "failed" =>
              error = (IF pre[InputPath].exists THEN "EmptyDataError"
                       ELSE "FileNotFoundError")
        /\ calls = <<>>
        /\ processed_count = 0
        /\ log = <<>>
        /\ files = pre

\* C17 witness: main has ended on a missing input with the file an earlier
\* run left at the output path still there.
C17_Witness ==
    /\ pc = "failed"
    /\ error = "FileNotFoundError"
    /\ ~files[InputPath].exists
    /\ files[OutputPath] = OldOutput
    /\ ~files["in.temp"].exists /\ ~files["out.temp"].exists

\* --------------------------------------------------------- search_address
\* The search_address the record at index r is to have all through the run.
ExpectedSearchAddress(r) ==
    IF "search_address" \in pre[InputPath].cols /\ LoadedRow(r)["search_address"] # Null
    THEN LoadedRow(r)["search_address"]
    ELSE LoadedRow(r)["location"] \o " " \o LoadedRow(r)["subdistrict"]

\* C18: a record whose search_address is not null in the loaded input has
\* that value in the frame all through the run and in every file the run
\* writes, whatever its location and subdistrict; a record without one has
\* location + " " + subdistrict from the start of the run to its end, in the
\* frame and in every file written.
C18_SearchAddressDerivation ==
    InRun =>
        \A r \in 0..(LoadedLen - 1) :
            /\ df.rows[r]["search_address"] = ExpectedSearchAddress(r)
            /\ \A p \in WrittenPaths :
                  read_row(files[p], r)["search_address"] = ExpectedSearchAddress(r)

\* C18 witness: a finished run over two records, the first with an edited
\* search_address and the second with none, for which the provider was called.
C18_Witness ==
    /\ pc = "done"
    /\ LoadedLen = 2
    /\ LoadedRow(0)["search_address"] = "edited"
    /\ LoadedRow(1)["search_address"] = Null
    /\ 1 \in Called
    /\ read_row(files[DestPath], 0)["search_address"] = "edited"
    /\ read_row(files[DestPath], 1)["search_address"] = "School B Phra Khanong"

\* ------------------------------------------------- "OK" and the coordinates
\* C19: every row a run called the provider for and left with the status "OK"
\* has its latitude and its longitude, whatever the provider answered, a
\* status "OK" with an empty list of results included.
C19_OkImpliesLocated ==
    InRun =>
        \A r \in Called :
            df.rows[r]["geocoding_status"] = "OK" =>
                /\ df.rows[r]["latitude"] # Null
                /\ df.rows[r]["longitude"] # Null

\* ------------------------------------------ the counts of check_file_status
\* C20: the counts of check_file_status partition the rows of every dataset,
\* one with rows that have both coordinates and the status "ERROR" included:
\* completed_rows + error_rows <= total_rows, pending_rows >= 0, and no row
\* is counted both as completed and as errored.
C20_CountsPartitionRows ==
    (pc # "main" /\ ~status.none) =>
        /\ status.completed_rows + status.error_rows <= status.total_rows
        /\ status.pending_rows >= 0
        /\ status.has_geocoding =>
              WithBothCoordinates(Inspected) \cap WithErrorStatus(Inspected) = {}

====
